---- MODULE Spec2Model ----
(***************************************************************************)
(* Verification model of the Vatican document collector:                   *)
(*   core/storage.py  DocumentQueue (Redis sorted set), CheckpointManager  *)
(*   utils.py         salvar_json, carregar_json, gerar_nome_arquivo_hash  *)
(*   crawler.py       processar_documento, iniciar_coleta_em_lote          *)
(*   core/nlp.py      SemanticSearch.criar_e_salvar_embedding              *)
(*   core/nlp.py      SemanticSearch.buscar                                *)
(*   main.py          _carregar_urls_iniciais, main                        *)
(* The specifications share the variables:                                 *)
(*   SpecFila       producers and consumers of the DocumentQueue           *)
(*   SpecCkpt       threads calling CheckpointManager, process restarts    *)
(*   SpecInicio     a process started over any checkpoint file             *)
(*   Spec           batch runs of iniciar_coleta_em_lote                   *)
(*   SpecLoteJusto  batch runs whose threads keep being scheduled          *)
(*   SpecLoteQueda  batch runs of a process that can be killed             *)
(*   SpecLoteFila   batch runs next to a filled DocumentQueue              *)
(*   SpecPool       a batch of more urls than the pool has workers         *)
(*   SpecMain       the crawl command over any urls.txt                    *)
(*   SpecBusca      searches over any embeddings directory                 *)
(***************************************************************************)
EXTENDS Integers, Sequences, FiniteSets, TLC

\* ------------------------------------------------------------------ bounds
MaxAdds == 1
MaxArquivos == 3
MaxChamadas == 3
MaxExecucoes == 2
MaxFalhas == 1
MaxMarcas == 2
MaxReinicios == 1
MaxTopK == 3
NConsumidores == 2
NThreads == 2

\* ------------------------------------------------------- values and inputs
None == "None"

URLS == {"https://www.vatican.va/a.html", "https://www.vatican.va/b.pdf", "https://www.vatican.va/c.html"}

\* lexicographic rank of a member, the order Redis uses among equal scores
Lex(u) ==
  CASE u = "https://www.vatican.va/a.html" -> 1
    [] u = "https://www.vatican.va/b.pdf" -> 2
    [] u = "https://www.vatican.va/c.html" -> 3

Prioridades == {1, 3, 5}

\* the locators a seed list is drawn from
SEMENTES == {"https://www.vatican.va/a.html", "https://www.vatican.va/b.pdf"}

\* Config.MAX_WORKERS
MAX_WORKERS == 4

\* Config.MAX_DOC_SIZE_MB
MAX_DOC_SIZE_MB == 25

\* the minimum text length of the quality gate
MIN_TEXTO == 100

\* len(response.content) of the responses the server can give
TamanhosResposta == {0, MAX_DOC_SIZE_MB * 1024 * 1024, MAX_DOC_SIZE_MB * 1024 * 1024 + 1}

\* len(texto_extraido) of the texts the converter can give ("" on any failure)
TamanhosTexto == {0, MIN_TEXTO - 1, MIN_TEXTO}

Consumidores == 1..NConsumidores

Threads == 1..NThreads

VARIABLES
  fila,            \* Redis sorted set vatican_document_queue: member -> score
  cpc,             \* per consumer: position inside obter_proximo_documento
  resposta,        \* per consumer: the ZPOPMAX reply in flight
  retornos,        \* history: how many calls of obter_proximo_documento returned each value
  retirados,       \* history: the scores in the order the server removed them
  carga,           \* history: the queue content the consumers started from
  houve_add,       \* history: adicionar_documento was called after the load
  adds,            \* number of adicionar_documento calls so far
  ultimo_add,      \* history: argument, outcome and return value of the last adicionar_documento
  processed_urls,  \* CheckpointManager.processed_urls of the running process
  arquivo,         \* checkpoints/processed_urls.json on disk
  pc,              \* per thread: position inside adicionar_url_processada
  url,             \* per thread: the url argument
  dados,           \* per thread: dados["urls_processadas"] built by salvar_checkpoint
  antes,           \* history, per thread: what a restart would load when salvar_checkpoint began
  salvo,           \* per thread: return value of salvar_json
  retornados,      \* history: urls whose adicionar_url_processada call has returned
  esperados,       \* history: retornados at the moment of the last restart
  io_falhou,       \* history: some open() or write of the checkpoint file raised IOError
  reinicios,       \* number of process restarts so far
  marcas,          \* number of adicionar_url_processada calls so far
  injetadas,       \* number of collaborator failures and rejections so far
  nomes,           \* names bound in module crawler besides its own imports
  lista_urls,      \* the argument of iniciar_coleta_em_lote
  urls_a_processar,\* the filtered list, one submitted future per entry
  bpc,             \* position of iniciar_coleta_em_lote
  execucoes,       \* number of batch runs started so far
  processados_nesta_sessao, \* the tally of the as_completed loop
  conteudo_bruto,  \* per future: len of the fetched bytes
  texto_extraido,  \* per future: len of the extracted text
  metadados,       \* per future: the assembled metadata record
  resultado,       \* per future: return value of processar_documento
  falhas,          \* history, per future: the steps that failed
  metadata_dir,    \* METADATA_DIR: file name -> content
  txt_dir,         \* TXT_DIR: file name -> content
  raw_dir,         \* RAW_DIR: file name -> content
  embeddings_dir,  \* EMBEDDINGS_DIR: file name -> content
  gerados,         \* history: (run, url, doc_id) of every record assembled
  downloads,       \* history: session.get calls per url
  recebido,        \* history, per future: len(response.content) of the response received
  escritas,        \* history: (doc_id, url, artifact, position) of every artifact write issued
  urls_txt,        \* PROJECT_ROOT/urls.txt: does it exist, and its lines
  saida,           \* exit status of the process that ran main, SemSaida while there is none
  chamada_busca,   \* history: top_k, the os.listdir result and the failure of the last buscar call
  resultado_busca  \* the list the last buscar call returned

varsFila == <<fila, cpc, resposta, retornos, retirados, carga, houve_add, adds, ultimo_add>>

varsCkpt == <<processed_urls, arquivo, pc, url, dados, antes, salvo, retornados, esperados, io_falhou, reinicios, marcas, injetadas>>

varsLote == <<nomes, lista_urls, urls_a_processar, bpc, execucoes, processados_nesta_sessao,
              conteudo_bruto, texto_extraido, metadados, resultado, falhas,
              metadata_dir, txt_dir, raw_dir, embeddings_dir, gerados, downloads, recebido, escritas, urls_txt, saida,
              chamada_busca, resultado_busca>>

vars == <<varsFila, varsCkpt, varsLote>>

\* ------------------------------------------------------------ small helpers
Max(S) == CHOOSE x \in S : \A y \in S : y <= x

Range(s) == {s[i] : i \in 1..Len(s)}

RECURSIVE SetToSeq(_)
\* list(a_set): the elements in one fixed order
SetToSeq(S) ==
  IF S = {} THEN <<>>
  ELSE LET m == CHOOSE x \in S : \A y \in S : Lex(x) <= Lex(y)
       IN <<m>> \o SetToSeq(S \ {m})

\* =========================================================================
\* DocumentQueue  (core/storage.py 14-72) over a Redis sorted set
\* =========================================================================

\* ZADD key {member: score}: number of members newly added
zadd_reply(q, u, p) == IF u \in DOMAIN q THEN 0 ELSE 1

\* ZADD key NX {member: score}: a member of the set keeps its score
zadd_nx(q, u, p) == [m \in (DOMAIN q) \cup {u} |-> IF m \in DOMAIN q THEN q[m] ELSE p]

\* ZADD key {member: score}: the sorted set afterwards
zadd(q, u, p) == [m \in (DOMAIN q) \cup {u} |-> IF m = u THEN p ELSE q[m]]

\* ZPOPMIN's choice: lowest score first
zpopmin_membro(q) ==
  LET low == CHOOSE x \in {q[m] : m \in DOMAIN q} : \A y \in {q[m] : m \in DOMAIN q} : x <= y
      cands == {m \in DOMAIN q : q[m] = low}
  IN CHOOSE m \in cands : \A n \in cands : Lex(m) <= Lex(n)

\* the member ZPOPMAX removes: highest score, then highest lexicographic rank
zpopmax_membro(q) ==
  LET top == Max({q[m] : m \in DOMAIN q})
      cands == {m \in DOMAIN q : q[m] = top}
  IN CHOOSE m \in cands : \A n \in cands : Lex(n) <= Lex(m)

\* ZPOPMAX key: the reply, a list of (member, score) pairs
zpopmax_reply(q) ==
  IF DOMAIN q = {} THEN <<>>
  ELSE <<[membro |-> zpopmax_membro(q), score |-> q[zpopmax_membro(q)]]>>

\* ZREVRANGE key 0 0 reads the top member and leaves the sorted set as it is
zrevrange_top(q) == q

\* ZPOPMAX key: the sorted set afterwards
zpopmax(q) ==
  IF DOMAIN q = {} THEN q
  ELSE [m \in (DOMAIN q) \ {zpopmax_membro(q)} |-> q[m]]

\* ZCARD key
tamanho_fila == Cardinality(DOMAIN fila)

\* no adicionar_documento call was made yet
SemAdd == [url |-> None, prioridade |-> 0, erro |-> FALSE, retorno |-> FALSE]

\* adicionar_documento returning True whatever the ZADD reply is
adicionar_documento_retorno_sempre(q, u, p) == zadd_reply(q, u, p) >= 0

\* adicionar_documento(url, prioridade): True iff the ZADD reply is 1
adicionar_documento_retorno(q, u, p) == zadd_reply(q, u, p) = 1

\* adicionar_documento(url, prioridade): one ZADD command
adicionar_documento(u, p) ==
  /\ adds < MaxAdds
  /\ adds' = adds + 1
  /\ fila' = zadd(fila, u, p)
  /\ houve_add' = TRUE
  /\ ultimo_add' = [url |-> u, prioridade |-> p, erro |-> FALSE,
                    retorno |-> adicionar_documento_retorno(fila, u, p)]
  /\ UNCHANGED <<cpc, resposta, retornos, retirados, carga>>
  /\ UNCHANGED <<varsCkpt, varsLote>>

\* adicionar_documento when the command raises RedisError: logs, returns False
\* (lines 46-48 do not read prioridade: the calls that fail are tried with the
\* highest priority)
adicionar_documento_erro(u, p) ==
  /\ adds < MaxAdds
  /\ adds' = adds + 1
  /\ ultimo_add' = [url |-> u, prioridade |-> p, erro |-> TRUE, retorno |-> FALSE]
  /\ UNCHANGED <<fila, cpc, resposta, retornos, retirados, carga, houve_add>>
  /\ UNCHANGED <<varsCkpt, varsLote>>

RECURSIVE Soma(_, _)
Soma(f, S) == IF S = {} THEN 0 ELSE LET x == CHOOSE y \in S : TRUE IN f[x] + Soma(f, S \ {x})

\* the calls of obter_proximo_documento made so far
Chamadas == Soma(retornos, DOMAIN retornos) + Cardinality({d \in Consumidores : cpc[d] = "respondido"})

\* obter_proximo_documento, line 59: the server runs ZPOPMAX as one command
obter_zpopmax(c) ==
  /\ cpc[c] = "ocioso"
  /\ Chamadas < MaxChamadas
  /\ resposta' = [resposta EXCEPT ![c] = zpopmax_reply(fila)]
  /\ fila' = zpopmax(fila)
  /\ cpc' = [cpc EXCEPT ![c] = "respondido"]
  /\ retirados' = IF DOMAIN fila = {} THEN retirados
                  ELSE Append(retirados, zpopmax_reply(fila)[1].score)
  /\ UNCHANGED <<retornos, carga, houve_add, adds, ultimo_add>>
  /\ UNCHANGED <<varsCkpt, varsLote>>

\* obter_proximo_documento, line 61: result[0][0] if result else None
obter_retorno(c) ==
  /\ cpc[c] = "respondido"
  /\ LET retorno == IF resposta[c] # <<>> THEN resposta[c][1].membro ELSE None
     IN retornos' = [retornos EXCEPT ![retorno] = @ + 1]
  /\ resposta' = [resposta EXCEPT ![c] = <<>>]
  /\ cpc' = [cpc EXCEPT ![c] = "ocioso"]
  /\ UNCHANGED <<fila, retirados, carga, houve_add, adds, ultimo_add>>
  /\ UNCHANGED <<varsCkpt, varsLote>>

\* obter_proximo_documento, lines 62-64: RedisError, the command did not run
obter_erro(c) ==
  /\ cpc[c] = "ocioso"
  /\ Chamadas < MaxChamadas
  /\ retornos' = [retornos EXCEPT ![None] = @ + 1]
  /\ UNCHANGED <<fila, cpc, resposta, retirados, carga, houve_add, adds, ultimo_add>>
  /\ UNCHANGED <<varsCkpt, varsLote>>

\* =========================================================================
\* utils.salvar_json / carregar_json and CheckpointManager
\* (utils.py 68-104, core/storage.py 74-101)
\* =========================================================================

\* A file is: does it exist, what its bytes parse as, the list under the key
\* "urls_processadas" when they parse as the checkpoint object, and its size
\* (counted in list entries).  Its bytes parse as
\*   "objeto"            the object salvar_checkpoint writes
\*   "invalido"          text that is not JSON (json.JSONDecodeError)
\*   "nao_utf8"          bytes that are not UTF-8 (UnicodeDecodeError)
\*   "lista"             a JSON value that is not an object, such as []
\*   "objeto_sem_chave"  an object without the key "urls_processadas"
\*   "chave_numero"      an object whose "urls_processadas" is a number
ArquivoAusente == [existe |-> FALSE, conteudo |-> "nada", lista |-> <<>>, tam |-> 0]

\* open(path, 'w'): the file exists and is empty
Truncado(arq) == [existe |-> TRUE, conteudo |-> "invalido", lista |-> <<>>, tam |-> 0]

\* the bytes of json.dump(dados) for a checkpoint object with this list
Serializado(l) == [existe |-> TRUE, conteudo |-> "objeto", lista |-> l, tam |-> Len(l)]

\* write through a handle positioned at offset 0: a longer file keeps its tail
Sobrescrito(arq, l) ==
  IF arq.tam > Len(l)
  THEN [existe |-> TRUE, conteudo |-> "invalido", lista |-> <<>>, tam |-> arq.tam]
  ELSE Serializado(l)

DictVazio == [k \in {} |-> <<>>]

\* dict.get(key, default)
dict_get(d, k, padrao) == IF k \in DOMAIN d THEN d[k] ELSE padrao

\* carregar_json: {} when the file is missing or json.load raises
carregar_json(arq) ==
  IF ~arq.existe THEN DictVazio
  ELSE IF arq.conteudo = "objeto" THEN [k \in {"urls_processadas"} |-> arq.lista]
  ELSE DictVazio

\* carregar_json, lines 99-104: only IOError and json.JSONDecodeError are
\* caught; the UnicodeDecodeError of f.read() leaves the function
carregar_json_levanta(arq) == arq.existe /\ arq.conteudo = "nao_utf8"

\* CheckpointManager._carregar_checkpoint, lines 82-83, raises: the exception
\* of carregar_json, the AttributeError of dados.get on a value that is not a
\* dict, or the TypeError of set() on a value that is not iterable
carregar_checkpoint_levanta(arq) ==
  \/ carregar_json_levanta(arq)
  \/ arq.existe /\ arq.conteudo \in {"lista", "chave_numero"}

\* CheckpointManager._carregar_checkpoint, when it returns
carregar_checkpoint(arq) == Range(dict_get(carregar_json(arq), "urls_processadas", <<>>))

\* CheckpointManager.url_ja_processada
url_ja_processada(u) == u \in processed_urls

\* the set replaced by one that holds the new url alone
set_so_o_novo(S, u) == {u}

\* adicionar_url_processada, line 96: self.processed_urls.add(url)
set_add(S, u) == S \cup {u}

\* adicionar_url_processada, line 96: self.processed_urls.add(url)
ckpt_add(t) ==
  /\ pc[t] = "add"
  /\ processed_urls' = set_add(processed_urls, url[t])
  /\ pc' = [pc EXCEPT ![t] = "salvar"]
  /\ UNCHANGED <<arquivo, url, dados, antes, salvo, retornados, esperados, io_falhou, reinicios, marcas, injetadas>>

\* salvar_checkpoint, lines 87-91: dados is built from the set as it is now
salvar_checkpoint(t) ==
  /\ pc[t] = "salvar"
  /\ dados' = [dados EXCEPT ![t] = SetToSeq(processed_urls)]
  /\ antes' = [antes EXCEPT ![t] = carregar_checkpoint(arquivo)]
  /\ pc' = [pc EXCEPT ![t] = "abrir"]
  /\ UNCHANGED <<processed_urls, arquivo, url, salvo, retornados, esperados, io_falhou, reinicios, marcas, injetadas>>

\* an except clause that names TypeError alone
salvar_json_captura_so_type(e) == e = "TypeError"

\* salvar_json, line 83: except (IOError, TypeError); a caught exception is
\* logged and False returned (84-85), any other leaves the call
salvar_json_captura(e) == e \in {"IOError", "TypeError"}

\* salvar_json, line 80: open(caminho, 'w') truncates the file
salvar_json_open(t) ==
  /\ pc[t] = "abrir"
  /\ arquivo' = Truncado(arquivo)
  /\ pc' = [pc EXCEPT ![t] = "dump"]
  /\ UNCHANGED <<processed_urls, url, dados, antes, salvo, retornados, esperados, io_falhou, reinicios, marcas, injetadas>>

\* salvar_json, lines 80, 83-85: open raises IOError; logged, returns False,
\* which salvar_checkpoint drops; adicionar_url_processada returns
salvar_json_open_erro(t) ==
  /\ pc[t] = "abrir"
  /\ salvo' = [salvo EXCEPT ![t] = FALSE]
  /\ io_falhou' = TRUE
  /\ retornados' = IF salvar_json_captura("IOError") THEN retornados \cup {url[t]} ELSE retornados
  /\ pc' = [pc EXCEPT ![t] = IF salvar_json_captura("IOError") THEN "marcado" ELSE "excecao"]
  /\ dados' = [dados EXCEPT ![t] = <<>>]
  /\ antes' = [antes EXCEPT ![t] = {}]
  /\ UNCHANGED <<processed_urls, arquivo, url, esperados, reinicios, marcas>>
  /\ injetadas < MaxFalhas
  /\ injetadas' = injetadas + 1

\* salvar_json, lines 81-82: json.dump and close flush the bytes; returns True;
\* adicionar_url_processada returns
salvar_json_dump(t) ==
  /\ pc[t] = "dump"
  /\ arquivo' = Sobrescrito(arquivo, dados[t])
  /\ salvo' = [salvo EXCEPT ![t] = TRUE]
  /\ retornados' = retornados \cup {url[t]}
  /\ pc' = [pc EXCEPT ![t] = "marcado"]
  /\ dados' = [dados EXCEPT ![t] = <<>>]
  /\ antes' = [antes EXCEPT ![t] = {}]
  /\ UNCHANGED <<processed_urls, url, esperados, io_falhou, reinicios, marcas, injetadas>>

\* salvar_json, lines 81, 83-85: the write raises IOError; logged, returns False,
\* which salvar_checkpoint drops; adicionar_url_processada returns
salvar_json_dump_erro(t) ==
  /\ pc[t] = "dump"
  /\ salvo' = [salvo EXCEPT ![t] = FALSE]
  /\ io_falhou' = TRUE
  /\ retornados' = IF salvar_json_captura("IOError") THEN retornados \cup {url[t]} ELSE retornados
  /\ pc' = [pc EXCEPT ![t] = IF salvar_json_captura("IOError") THEN "marcado" ELSE "excecao"]
  /\ dados' = [dados EXCEPT ![t] = <<>>]
  /\ antes' = [antes EXCEPT ![t] = {}]
  /\ UNCHANGED <<processed_urls, arquivo, url, esperados, reinicios, marcas>>
  /\ injetadas < MaxFalhas
  /\ injetadas' = injetadas + 1

\* a thread of the process calls checkpoint_manager.adicionar_url_processada(u)
chamar_adicionar(t, u) ==
  /\ pc[t] \in {"ocioso", "marcado"}
  /\ marcas < MaxMarcas
  /\ marcas' = marcas + 1
  /\ url' = [url EXCEPT ![t] = u]
  /\ salvo' = [salvo EXCEPT ![t] = FALSE]
  /\ pc' = [pc EXCEPT ![t] = "add"]
  /\ UNCHANGED <<processed_urls, arquivo, dados, antes, retornados, esperados, io_falhou, reinicios, injetadas>>
  /\ UNCHANGED <<varsFila, varsLote>>

\* the process dies at any point and is started again:
\* CheckpointManager.__init__ loads the file (lines 76-83); an exception of
\* _carregar_checkpoint leaves the constructor and ends the new process
Reiniciar ==
  /\ reinicios < MaxReinicios
  /\ reinicios' = reinicios + 1
  /\ esperados' = retornados
  /\ IF carregar_checkpoint_levanta(arquivo)
     THEN /\ processed_urls' = {}
          /\ pc' = [t \in Threads |-> "abortado"]
     ELSE /\ processed_urls' = carregar_checkpoint(arquivo)
          /\ pc' = [t \in Threads |-> "ocioso"]
  /\ url' = [t \in Threads |-> None]
  /\ dados' = [t \in Threads |-> <<>>]
  /\ antes' = [t \in Threads |-> {}]
  /\ salvo' = [t \in Threads |-> FALSE]
  /\ UNCHANGED <<arquivo, retornados, io_falhou, marcas, injetadas>>
  /\ UNCHANGED <<varsFila, varsLote>>

\* the steps of adicionar_url_processada, by the thread that is inside it
PassoCkpt(t) ==
  \/ ckpt_add(t)
  \/ salvar_checkpoint(t)
  \/ salvar_json_open(t)
  \/ salvar_json_open_erro(t)
  \/ salvar_json_dump(t)
  \/ salvar_json_dump_erro(t)

SemMetadados == [id |-> <<0, 0>>, doc_hash |-> None, url |-> None, formato |-> None]

\* =========================================================================
\* crawler.py: processar_documento (77-129), iniciar_coleta_em_lote (131-176)
\* =========================================================================

\* the names the import block of crawler.py binds (lines 1-17)
ImportsCrawler ==
  {"os", "uuid", "hashlib", "logging", "requests", "pdfplumber", "html2text", "tempfile",
   "ThreadPoolExecutor", "as_completed", "HTTPAdapter", "Retry",
   "Config", "utils", "SemanticSearch", "CheckpointManager"}

\* a global name of crawler.py resolves: bound by the import block, or set on
\* the module by the program that embeds it; otherwise its use raises NameError
NomeLigado(n) == n \in ImportsCrawler \cup nomes

\* str(uuid.uuid4()) in future t of the current run: a value no other call gives
uuid4(t) == <<execucoes, t>>

\* utils.gerar_nome_arquivo_hash: the MD5 hex digest of the url
gerar_nome_arquivo_hash(u) == <<"md5", u>>

\* "pdf" if url.lower().endswith(".pdf") else "html"
Formato(u) == IF u = "https://www.vatican.va/b.pdf" THEN "pdf" ELSE "html"

\* a file of this name is written (created or overwritten) in a directory
Gravado(dir, nome, c) == [n \in (DOMAIN dir) \cup {nome} |-> IF n = nome THEN c ELSE dir[n]]

\* the futures of the current run
Tarefas == 1..Len(urls_a_processar)

\* the futures a worker thread is executing
EmExecucao == {t \in Tarefas : pc[t] \notin {"pendente", "feito", "excecao", "coletado"}}

\* a pool that starts a thread for every submitted future
ha_worker_livre_sempre == TRUE

\* ThreadPoolExecutor(max_workers=Config.MAX_WORKERS), line 157: a pending
\* future starts only while fewer than MAX_WORKERS futures are executing
ha_worker_livre == Cardinality(EmExecucao) < MAX_WORKERS

locais == <<conteudo_bruto, texto_extraido, metadados, resultado, falhas>>

diretorios == <<metadata_dir, txt_dir, raw_dir, embeddings_dir>>

\* buscar was not called yet
SemBusca == [feita |-> FALSE, top_k |-> 0, listagem |-> <<>>, erro |-> FALSE]

\* urls.txt is missing
UrlsAusente == [existe |-> FALSE, linhas |-> <<>>]

\* no process that ran main has ended
SemSaida == -1

principal == <<urls_txt, saida>>

varsBusca == <<chamada_busca, resultado_busca>>

lote == <<nomes, lista_urls, urls_a_processar, bpc, execucoes, processados_nesta_sessao, principal, varsBusca>>

ckptSemPc == <<processed_urls, arquivo, url, dados, antes, salvo, retornados, esperados,
               io_falhou, reinicios, marcas>>

\* urls_a_processar (148): the urls of the list that are not in the checkpoint
urls_novas(lista, ck) == SelectSeq(lista, LAMBDA u : u \notin ck)

\* the futures of a batch over the list l (lines 158-161: one per url), and
\* the threads of the process
Vagas(l) == Threads \cup (1..Len(l))

\* iniciar_coleta_em_lote, lines 131-162, in a freshly started process:
\* CheckpointManager() loads the file, nlp.carregar_modelos_nlp() needs the
\* name nlp, the list is filtered and one future per remaining url submitted
iniciar_coleta_em_lote ==
  /\ bpc \in {"inicio", "fim", "erro", "vazio", "morto"}
  /\ execucoes < MaxExecucoes
  /\ execucoes' = execucoes + 1
  /\ processed_urls' = carregar_checkpoint(arquivo)
  /\ esperados' = retornados
  /\ processados_nesta_sessao' = 0
  /\ LET novas == IF ~carregar_checkpoint_levanta(arquivo) /\ NomeLigado("nlp")
                  THEN urls_novas(lista_urls, carregar_checkpoint(arquivo))
                  ELSE <<>>
     IN /\ urls_a_processar' = novas
        /\ bpc' = IF carregar_checkpoint_levanta(arquivo) \/ ~NomeLigado("nlp") THEN "erro"
                  ELSE IF novas = <<>> THEN "vazio" ELSE "rodando"
        /\ pc' = [t \in Vagas(urls_a_processar') |-> IF t <= Len(novas) THEN "pendente" ELSE "ocioso"]
        /\ url' = [t \in Vagas(urls_a_processar') |-> IF t <= Len(novas) THEN novas[t] ELSE None]
  /\ dados' = [t \in Vagas(urls_a_processar') |-> <<>>]
  /\ antes' = [t \in Vagas(urls_a_processar') |-> {}]
  /\ salvo' = [t \in Vagas(urls_a_processar') |-> FALSE]
  /\ conteudo_bruto' = [t \in Vagas(urls_a_processar') |-> 0]
  /\ texto_extraido' = [t \in Vagas(urls_a_processar') |-> 0]
  /\ metadados' = [t \in Vagas(urls_a_processar') |-> SemMetadados]
  /\ resultado' = [t \in Vagas(urls_a_processar') |-> None]
  /\ falhas' = [t \in Vagas(urls_a_processar') |-> {}]
  /\ UNCHANGED <<arquivo, retornados, io_falhou, reinicios, marcas, injetadas>>
  /\ recebido' = [t \in Vagas(urls_a_processar') |-> 0]
  /\ UNCHANGED <<nomes, lista_urls, diretorios, gerados, downloads, escritas, principal, varsBusca>>
  /\ UNCHANGED varsFila

\* processar_documento entered without the test of lines 84-86
proc_inicio_sem_teste(t) ==
  /\ bpc = "rodando"
  /\ t \in Tarefas
  /\ pc[t] = "pendente"
  /\ \A s \in Tarefas : s < t => pc[s] # "pendente"
  /\ ha_worker_livre
  /\ pc' = [pc EXCEPT ![t] = "baixar"]
  /\ UNCHANGED <<conteudo_bruto, texto_extraido, metadados, resultado, falhas>>
  /\ UNCHANGED <<ckptSemPc, injetadas, lote, diretorios, gerados, downloads, recebido, escritas, varsFila>>

\* a worker thread takes the next future; processar_documento lines 84-86
proc_inicio(t) ==
  /\ bpc = "rodando"
  /\ t \in Tarefas
  /\ pc[t] = "pendente"
  /\ \A s \in Tarefas : s < t => pc[s] # "pendente"
  /\ ha_worker_livre
  /\ IF url_ja_processada(url[t])
     THEN /\ pc' = [pc EXCEPT ![t] = "feito"]
          /\ resultado' = [resultado EXCEPT ![t] = None]
     ELSE /\ pc' = [pc EXCEPT ![t] = "baixar"]
          /\ UNCHANGED resultado
  /\ UNCHANGED <<conteudo_bruto, texto_extraido, metadados, falhas>>
  /\ UNCHANGED <<ckptSemPc, injetadas, lote, diretorios, gerados, downloads, recebido, escritas, varsFila>>

\* the size test of _baixar_documento left out
resposta_grande_nunca(r) == FALSE

\* _baixar_documento, line 45: len(response.content) > MAX_DOC_SIZE_MB * 1024 * 1024
resposta_grande(r) == r > MAX_DOC_SIZE_MB * 1024 * 1024

\* the quality gate testing only for an empty text
texto_rejeitado_so_vazio(n) == n = 0

\* line 95: not texto_extraido or len(texto_extraido) < 100
texto_rejeitado(n) == n = 0 \/ n < MIN_TEXTO

\* lines 90-114, the steps that touch only the worker's own data:
\*   _baixar_documento (39-52): r is len(response.content), erro says that
\*     session.get / raise_for_status raised RequestException;
\*   _converter_conteudo_para_texto (54-75): n is len(texto), "" on failure;
\*   the quality gate (95), the hash, a fresh uuid, the format, and the
\*     metadata dict, whose values use the global names datetime (109) and
\*     nlp (111-113)
proc_preparar(t, r, erro, n) ==
  /\ pc[t] = "baixar"
  /\ downloads' = [downloads EXCEPT ![url[t]] = @ + 1]
  /\ erro => r = 0
  /\ recebido' = [recebido EXCEPT ![t] = r]
  /\ LET sem_conteudo == erro \/ resposta_grande(r) \/ r = 0
         sem_texto == texto_rejeitado(n)
         rejeitado == sem_conteudo \/ sem_texto
     IN /\ rejeitado => injetadas < MaxFalhas
        /\ sem_conteudo => n = 0
        /\ injetadas' = IF rejeitado THEN injetadas + 1 ELSE injetadas
        /\ IF sem_conteudo
           THEN /\ falhas' = [falhas EXCEPT ![t] = @ \cup
                       {IF ~erro /\ resposta_grande(r) THEN "tamanho" ELSE "download"}]
                /\ pc' = [pc EXCEPT ![t] = "feito"]
                /\ UNCHANGED <<conteudo_bruto, texto_extraido, metadados, gerados>>
           ELSE /\ conteudo_bruto' = [conteudo_bruto EXCEPT ![t] = r]
                /\ texto_extraido' = [texto_extraido EXCEPT ![t] = n]
                /\ IF sem_texto
                   THEN /\ falhas' = [falhas EXCEPT ![t] = @ \cup
                               {IF n = 0 THEN "conversao" ELSE "texto_curto"}]
                        /\ pc' = [pc EXCEPT ![t] = "feito"]
                        /\ UNCHANGED <<metadados, gerados>>
                   ELSE IF NomeLigado("datetime") /\ NomeLigado("nlp")
                   THEN /\ metadados' = [metadados EXCEPT ![t] =
                               [id |-> uuid4(t), doc_hash |-> gerar_nome_arquivo_hash(url[t]),
                                url |-> url[t], formato |-> Formato(url[t])]]
                        /\ gerados' = gerados \cup
                               {[execucao |-> execucoes, url |-> url[t], id |-> uuid4(t)]}
                        /\ pc' = [pc EXCEPT ![t] = "meta"]
                        /\ UNCHANGED falhas
                   ELSE /\ falhas' = [falhas EXCEPT ![t] = @ \cup {"metadados"}]
                        /\ pc' = [pc EXCEPT ![t] = "excecao"]
                        /\ UNCHANGED <<metadados, gerados>>
  /\ UNCHANGED resultado
  /\ UNCHANGED <<ckptSemPc, lote, diretorios, escritas, varsFila>>

\* the statement of lines 117-127 that follows artifact write p while no
\* exception leaves processar_documento; the mark coming before the vector
seguinte_marca_cedo(p) ==
  CASE p = "meta" -> "txt" [] p = "txt" -> "raw" [] p = "raw" -> "add" [] p = "vetor" -> "add"

\* the statement of lines 117-127 that follows artifact write p while no
\* exception leaves processar_documento: 117 metadata, 118-119 text,
\* 120-121 raw bytes, 124 vector, 127 adicionar_url_processada
seguinte(p) ==
  CASE p = "meta" -> "txt" [] p = "txt" -> "raw" [] p = "raw" -> "vetor" [] p = "vetor" -> "add"

\* the record of future t issuing the write of artifact p (lines 117-124):
\* n counts the writes its pipeline run has issued, this one included
Escrita(t, p) ==
  [id |-> metadados[t].id, url |-> url[t], tipo |-> p,
   n |-> Cardinality({e \in escritas : e.id = metadados[t].id}) + 1]

\* line 117: utils.salvar_json(METADATA_DIR/<hash>.json, metadados); on
\* IOError salvar_json logs and returns False, and the result is not read
proc_salvar_meta(t, ok) ==
  /\ pc[t] = "meta"
  /\ escritas' = escritas \cup {Escrita(t, "meta")}
  /\ ~ok => injetadas < MaxFalhas
  /\ injetadas' = IF ok THEN injetadas ELSE injetadas + 1
  /\ IF ok
     THEN /\ metadata_dir' = Gravado(metadata_dir, <<metadados[t].doc_hash, "json">>, metadados[t])
          /\ UNCHANGED falhas
     ELSE /\ falhas' = [falhas EXCEPT ![t] = @ \cup {"meta"}]
          /\ UNCHANGED metadata_dir
  /\ pc' = [pc EXCEPT ![t] = seguinte("meta")]
  /\ UNCHANGED <<conteudo_bruto, texto_extraido, metadados, resultado>>
  /\ UNCHANGED <<ckptSemPc, lote, txt_dir, raw_dir, embeddings_dir, gerados, downloads, recebido, varsFila>>

\* lines 118-119: open(TXT_DIR/<hash>.txt, 'w') and write; IOError propagates
proc_salvar_txt(t, ok) ==
  /\ pc[t] = "txt"
  /\ escritas' = escritas \cup {Escrita(t, "txt")}
  /\ ~ok => injetadas < MaxFalhas
  /\ injetadas' = IF ok THEN injetadas ELSE injetadas + 1
  /\ IF ok
     THEN /\ txt_dir' = Gravado(txt_dir, <<metadados[t].doc_hash, "txt">>, texto_extraido[t])
          /\ pc' = [pc EXCEPT ![t] = seguinte("txt")]
          /\ UNCHANGED falhas
     ELSE /\ falhas' = [falhas EXCEPT ![t] = @ \cup {"txt"}]
          /\ pc' = [pc EXCEPT ![t] = "excecao"]
          /\ UNCHANGED txt_dir
  /\ UNCHANGED <<conteudo_bruto, texto_extraido, metadados, resultado>>
  /\ UNCHANGED <<ckptSemPc, lote, metadata_dir, raw_dir, embeddings_dir, gerados, downloads, recebido, varsFila>>

\* lines 120-121: open(RAW_DIR/<hash>.<formato>, 'wb') and write; IOError propagates
proc_salvar_raw(t, ok) ==
  /\ pc[t] = "raw"
  /\ escritas' = escritas \cup {Escrita(t, "raw")}
  /\ ~ok => injetadas < MaxFalhas
  /\ injetadas' = IF ok THEN injetadas ELSE injetadas + 1
  /\ IF ok
     THEN /\ raw_dir' = Gravado(raw_dir, <<metadados[t].doc_hash, metadados[t].formato>>, conteudo_bruto[t])
          /\ pc' = [pc EXCEPT ![t] = seguinte("raw")]
          /\ UNCHANGED falhas
     ELSE /\ falhas' = [falhas EXCEPT ![t] = @ \cup {"raw"}]
          /\ pc' = [pc EXCEPT ![t] = "excecao"]
          /\ UNCHANGED raw_dir
  /\ UNCHANGED <<conteudo_bruto, texto_extraido, metadados, resultado>>
  /\ UNCHANGED <<ckptSemPc, lote, metadata_dir, txt_dir, embeddings_dir, gerados, downloads, recebido, varsFila>>

\* line 124 with SemanticSearch.criar_e_salvar_embedding (nlp.py 97-107):
\* np.save(EMBEDDINGS_DIR/<doc_id>.npy); any exception is logged and dropped
proc_salvar_vetor(t, ok) ==
  /\ pc[t] = "vetor"
  /\ escritas' = escritas \cup {Escrita(t, "vetor")}
  /\ ~ok => injetadas < MaxFalhas
  /\ injetadas' = IF ok THEN injetadas ELSE injetadas + 1
  /\ IF ok
     THEN /\ embeddings_dir' = Gravado(embeddings_dir, <<metadados[t].id, "npy">>, texto_extraido[t])
          /\ UNCHANGED falhas
     ELSE /\ falhas' = [falhas EXCEPT ![t] = @ \cup {"vetor"}]
          /\ UNCHANGED embeddings_dir
  /\ pc' = [pc EXCEPT ![t] = seguinte("vetor")]
  /\ UNCHANGED <<conteudo_bruto, texto_extraido, metadados, resultado>>
  /\ UNCHANGED <<ckptSemPc, lote, metadata_dir, txt_dir, raw_dir, gerados, downloads, recebido, varsFila>>

\* lines 128-129, after adicionar_url_processada has returned: return url
proc_retorna(t) ==
  /\ bpc = "rodando"
  /\ t \in Tarefas
  /\ pc[t] = "marcado"
  /\ resultado' = [resultado EXCEPT ![t] = url[t]]
  /\ pc' = [pc EXCEPT ![t] = "feito"]
  /\ UNCHANGED <<conteudo_bruto, texto_extraido, metadados, falhas>>
  /\ UNCHANGED <<ckptSemPc, injetadas, lote, diretorios, gerados, downloads, recebido, escritas, varsFila>>

\* the loop of lines 164-171 without its try/except: the exception of a
\* future leaves iniciar_coleta_em_lote
lote_coletar_sem_except(t) ==
  /\ bpc = "rodando"
  /\ t \in Tarefas
  /\ pc[t] \in {"feito", "excecao"}
  /\ processados_nesta_sessao' =
       IF pc[t] = "feito" /\ resultado[t] # None
       THEN processados_nesta_sessao + 1 ELSE processados_nesta_sessao
  /\ pc' = [pc EXCEPT ![t] = "coletado"]
  /\ bpc' = IF pc[t] = "excecao" THEN "erro" ELSE bpc
  /\ UNCHANGED <<nomes, lista_urls, urls_a_processar, execucoes, principal, varsBusca>>
  /\ UNCHANGED <<ckptSemPc, injetadas, locais, diretorios, gerados, downloads, recebido, escritas, varsFila>>

\* lines 164-171: as_completed yields a finished future; a truthy result is
\* counted, an exception is logged
lote_coletar(t) ==
  /\ bpc = "rodando"
  /\ t \in Tarefas
  /\ pc[t] \in {"feito", "excecao"}
  /\ processados_nesta_sessao' =
       IF pc[t] = "feito" /\ resultado[t] # None
       THEN processados_nesta_sessao + 1 ELSE processados_nesta_sessao
  /\ pc' = [pc EXCEPT ![t] = "coletado"]
  /\ UNCHANGED <<nomes, lista_urls, urls_a_processar, bpc, execucoes, principal, varsBusca>>
  /\ UNCHANGED <<ckptSemPc, injetadas, locais, diretorios, gerados, downloads, recebido, escritas, varsFila>>

\* lines 173-176: every future was yielded, the pool is shut down, the
\* summary is logged
lote_fim ==
  /\ bpc = "rodando"
  /\ \A t \in Tarefas : pc[t] = "coletado"
  /\ bpc' = "fim"
  /\ UNCHANGED <<nomes, lista_urls, urls_a_processar, execucoes, processados_nesta_sessao, principal, varsBusca>>
  /\ UNCHANGED <<varsCkpt, locais, diretorios, gerados, downloads, recebido, escritas, varsFila>>

\* the steps of processar_documento, by the worker thread that runs future t
PassoProc(t) ==
  \/ proc_inicio(t)
  \/ \E r \in TamanhosResposta, erro \in BOOLEAN, n \in TamanhosTexto : proc_preparar(t, r, erro, n)
  \/ \E ok \in BOOLEAN : proc_salvar_meta(t, ok)
  \/ \E ok \in BOOLEAN : proc_salvar_txt(t, ok)
  \/ \E ok \in BOOLEAN : proc_salvar_raw(t, ok)
  \/ \E ok \in BOOLEAN : proc_salvar_vetor(t, ok)
  \/ PassoCkpt(t) /\ UNCHANGED <<varsFila, varsLote>>
  \/ proc_retorna(t)

\* the queues Redis can hold: any finite map from members to scores
Filas == UNION {[D -> Prioridades] : D \in SUBSET URLS}

InitLoteParado ==
  /\ nomes = {}
  /\ lista_urls = <<>>
  /\ urls_a_processar = <<>>
  /\ bpc = "inicio"
  /\ execucoes = 0
  /\ processados_nesta_sessao = 0
  /\ conteudo_bruto = [t \in Threads |-> 0]
  /\ texto_extraido = [t \in Threads |-> 0]
  /\ metadados = [t \in Threads |-> SemMetadados]
  /\ resultado = [t \in Threads |-> None]
  /\ falhas = [t \in Threads |-> {}]
  /\ metadata_dir = <<>>
  /\ txt_dir = <<>>
  /\ raw_dir = <<>>
  /\ embeddings_dir = <<>>
  /\ gerados = {}
  /\ escritas = {}
  /\ downloads = [u \in URLS |-> 0]
  /\ recebido = [t \in Threads |-> 0]
  /\ urls_txt = UrlsAusente
  /\ saida = SemSaida
  /\ chamada_busca = SemBusca
  /\ resultado_busca = <<>>

InitCkptParado ==
  /\ processed_urls = {}
  /\ arquivo = ArquivoAusente
  /\ marcas = 0
  /\ injetadas = 0
  /\ pc = [t \in Threads |-> "ocioso"]
  /\ url = [t \in Threads |-> None]
  /\ dados = [t \in Threads |-> <<>>]
  /\ antes = [t \in Threads |-> {}]
  /\ salvo = [t \in Threads |-> FALSE]
  /\ retornados = {}
  /\ esperados = {}
  /\ io_falhou = FALSE
  /\ reinicios = 0

InitFila ==
  /\ fila \in Filas
  /\ carga = fila
  /\ cpc = [c \in Consumidores |-> "ocioso"]
  /\ resposta = [c \in Consumidores |-> <<>>]
  /\ retornos = [r \in URLS \cup {None} |-> 0]
  /\ retirados = <<>>
  /\ houve_add = FALSE
  /\ adds = 0
  /\ ultimo_add = SemAdd
  /\ InitCkptParado
  /\ InitLoteParado

NextFila ==
  \/ \E u \in URLS, p \in Prioridades : adicionar_documento(u, p)
  \/ \E u \in URLS : adicionar_documento_erro(u, Max(Prioridades))
  \/ \E c \in Consumidores : obter_zpopmax(c)
  \/ \E c \in Consumidores : obter_retorno(c)
  \/ \E c \in Consumidores : obter_erro(c)

SpecFila == InitFila /\ [][NextFila]_vars

InitFilaParada ==
  /\ fila = <<>>
  /\ carga = <<>>
  /\ cpc = [c \in Consumidores |-> "ocioso"]
  /\ resposta = [c \in Consumidores |-> <<>>]
  /\ retornos = [r \in URLS \cup {None} |-> 0]
  /\ retirados = <<>>
  /\ houve_add = FALSE
  /\ adds = 0
  /\ ultimo_add = SemAdd

\* the checkpoint files an earlier process can have left behind
ArquivosIniciais == {ArquivoAusente} \cup {Serializado(SetToSeq(S)) : S \in SUBSET URLS}

InitCkpt ==
  /\ arquivo \in ArquivosIniciais
  /\ processed_urls = carregar_checkpoint(arquivo)
  /\ pc = [t \in Threads |-> "ocioso"]
  /\ url = [t \in Threads |-> None]
  /\ dados = [t \in Threads |-> <<>>]
  /\ antes = [t \in Threads |-> {}]
  /\ salvo = [t \in Threads |-> FALSE]
  /\ retornados = {}
  /\ esperados = {}
  /\ io_falhou = FALSE
  /\ reinicios = 0
  /\ marcas = 0
  /\ injetadas = 0
  /\ InitFilaParada
  /\ InitLoteParado

\* a file of the checkpoint path that the program does not read as its object
Danificado(c) == [existe |-> TRUE, conteudo |-> c, lista |-> <<>>, tam |-> 1]

\* what the checkpoint path can hold when a process starts: nothing, a
\* checkpoint object, or a file damaged or written by something else
ArquivosNoDisco ==
  ArquivosIniciais \cup
  {Danificado(c) : c \in {"invalido", "nao_utf8", "lista", "objeto_sem_chave", "chave_numero"}}

\* no process is running yet; the first step is its start
InitInicio ==
  /\ arquivo \in ArquivosNoDisco
  /\ processed_urls = {}
  /\ pc = [t \in Threads |-> "parado"]
  /\ url = [t \in Threads |-> None]
  /\ dados = [t \in Threads |-> <<>>]
  /\ antes = [t \in Threads |-> {}]
  /\ salvo = [t \in Threads |-> FALSE]
  /\ retornados = {}
  /\ esperados = {}
  /\ io_falhou = FALSE
  /\ reinicios = 0
  /\ marcas = 0
  /\ injetadas = 0
  /\ InitFilaParada
  /\ InitLoteParado

NextCkpt ==
  \/ \E t \in Threads, u \in URLS : chamar_adicionar(t, u)
  \/ \E t \in Threads : PassoCkpt(t) /\ UNCHANGED <<varsFila, varsLote>>
  \/ Reiniciar

SpecCkpt == InitCkpt /\ [][NextCkpt]_vars

\* a process started over whatever the checkpoint path holds
SpecInicio == InitInicio /\ [][NextCkpt]_vars

\* the seed lists handed to iniciar_coleta_em_lote: one locator, two distinct
\* locators in either order, one locator twice
ListasIniciais == {<<u>> : u \in SEMENTES} \cup {<<u, v>> : u \in SEMENTES, v \in SEMENTES}

Init ==
  /\ nomes \in SUBSET {"datetime", "nlp"}
  /\ lista_urls \in ListasIniciais
  /\ urls_a_processar = <<>>
  /\ bpc = "inicio"
  /\ execucoes = 0
  /\ processados_nesta_sessao = 0
  /\ conteudo_bruto = [t \in Threads |-> 0]
  /\ texto_extraido = [t \in Threads |-> 0]
  /\ metadados = [t \in Threads |-> SemMetadados]
  /\ resultado = [t \in Threads |-> None]
  /\ falhas = [t \in Threads |-> {}]
  /\ metadata_dir = <<>>
  /\ txt_dir = <<>>
  /\ raw_dir = <<>>
  /\ embeddings_dir = <<>>
  /\ gerados = {}
  /\ escritas = {}
  /\ downloads = [u \in URLS |-> 0]
  /\ recebido = [t \in Threads |-> 0]
  /\ urls_txt = UrlsAusente
  /\ saida = SemSaida
  /\ chamada_busca = SemBusca
  /\ resultado_busca = <<>>
  /\ InitCkptParado
  /\ InitFilaParada

Next ==
  \/ iniciar_coleta_em_lote
  \/ \E t \in Threads : PassoProc(t)
  \/ \E t \in Threads : lote_coletar(t)
  \/ lote_fim

Spec == Init /\ [][Next]_vars

\* batch runs in which the pool's worker threads and the main thread keep
\* being scheduled: every future that can take a step takes one, a finished
\* future is yielded by as_completed, and the loop's end is reached
SpecLoteJusto ==
  /\ Init
  /\ [][Next]_vars
  /\ \A t \in Threads : WF_vars(PassoProc(t)) /\ WF_vars(lote_coletar(t))
  /\ WF_vars(lote_fim)

\* the process is killed while the batch runs: its threads and its memory are
\* gone, the files stay as they are at that moment
processo_morre ==
  /\ bpc = "rodando"
  /\ bpc' = "morto"
  /\ urls_a_processar' = <<>>
  /\ processados_nesta_sessao' = 0
  /\ processed_urls' = {}
  /\ pc' = [t \in Threads |-> "ocioso"]
  /\ url' = [t \in Threads |-> None]
  /\ dados' = [t \in Threads |-> <<>>]
  /\ antes' = [t \in Threads |-> {}]
  /\ salvo' = [t \in Threads |-> FALSE]
  /\ conteudo_bruto' = [t \in Threads |-> 0]
  /\ texto_extraido' = [t \in Threads |-> 0]
  /\ metadados' = [t \in Threads |-> SemMetadados]
  /\ resultado' = [t \in Threads |-> None]
  /\ falhas' = [t \in Threads |-> {}]
  /\ recebido' = [t \in Threads |-> 0]
  /\ UNCHANGED <<arquivo, retornados, esperados, io_falhou, reinicios, marcas, injetadas>>
  /\ UNCHANGED <<nomes, lista_urls, execucoes, principal, varsBusca, diretorios, gerados, downloads, escritas>>
  /\ UNCHANGED varsFila

NextLoteQueda ==
  \/ Next
  \/ processo_morre

\* batch runs of a process that can be killed at any moment and run again
SpecLoteQueda == Init /\ [][NextLoteQueda]_vars

\* the futures of a batch with one url more than the pool has workers
Futuros == 1..(MAX_WORKERS + 1)

\* a list of MAX_WORKERS + 1 urls, as main hands it to iniciar_coleta_em_lote
ListaLonga == [i \in Futuros |-> SetToSeq(URLS)[((i - 1) % Cardinality(URLS)) + 1]]

\* the process as the repository runs it once the name nlp is bound: the name
\* datetime is bound nowhere in crawler.py
InitPool ==
  /\ nomes = {"nlp"}
  /\ lista_urls = ListaLonga
  /\ urls_a_processar = <<>>
  /\ bpc = "inicio"
  /\ execucoes = 0
  /\ processados_nesta_sessao = 0
  /\ conteudo_bruto = [t \in Futuros |-> 0]
  /\ texto_extraido = [t \in Futuros |-> 0]
  /\ metadados = [t \in Futuros |-> SemMetadados]
  /\ resultado = [t \in Futuros |-> None]
  /\ falhas = [t \in Futuros |-> {}]
  /\ metadata_dir = <<>>
  /\ txt_dir = <<>>
  /\ raw_dir = <<>>
  /\ embeddings_dir = <<>>
  /\ gerados = {}
  /\ escritas = {}
  /\ downloads = [u \in URLS |-> 0]
  /\ recebido = [t \in Futuros |-> 0]
  /\ urls_txt = UrlsAusente
  /\ saida = SemSaida
  /\ chamada_busca = SemBusca
  /\ resultado_busca = <<>>
  /\ processed_urls = {}
  /\ arquivo = ArquivoAusente
  /\ marcas = 0
  /\ injetadas = 0
  /\ pc = [t \in Futuros |-> "ocioso"]
  /\ url = [t \in Futuros |-> None]
  /\ dados = [t \in Futuros |-> <<>>]
  /\ antes = [t \in Futuros |-> {}]
  /\ salvo = [t \in Futuros |-> FALSE]
  /\ retornados = {}
  /\ esperados = {}
  /\ io_falhou = FALSE
  /\ reinicios = 0
  /\ InitFilaParada

\* the steps of processar_documento that can be taken while the name
\* datetime is unbound: line 109 raises NameError in every pipeline that
\* passes the gates, so lines 116-129 are not reached
PassoAteMetadados(t) ==
  \/ proc_inicio(t)
  \/ \E r \in TamanhosResposta, erro \in BOOLEAN, n \in TamanhosTexto : proc_preparar(t, r, erro, n)

NextPool ==
  \/ iniciar_coleta_em_lote
  \/ \E t \in Futuros : PassoAteMetadados(t)
  \/ \E t \in Futuros : lote_coletar(t)
  \/ lote_fim

\* a batch over more urls than the pool has workers, in which the worker
\* threads and the main thread keep being scheduled and every call returns
SpecPool ==
  /\ InitPool
  /\ [][NextPool]_vars
  /\ \A t \in Futuros : WF_vars(PassoAteMetadados(t)) /\ WF_vars(lote_coletar(t))
  /\ WF_vars(lote_fim)

\* =========================================================================
\* main.py: _carregar_urls_iniciais (11-23), main (25-62) with --crawl
\* =========================================================================

\* A line of urls.txt after strip(): its text and what urlparse makes of it.
\* netloc is cut in pieces so that endswith("vatican.va") can be computed.
LinhaA == [texto |-> "https://www.vatican.va/a.html", scheme |-> "https", netloc |-> <<"www.", "vatican.va">>]

LinhaB == [texto |-> "https://www.vatican.va/b.pdf", scheme |-> "https", netloc |-> <<"www.", "vatican.va">>]

LinhaFora == [texto |-> "https://example.com/x.html", scheme |-> "https", netloc |-> <<"example.com">>]

LinhaSemEsquema == [texto |-> "www.vatican.va/a.html", scheme |-> "", netloc |-> <<>>]

LinhaEmBranco == [texto |-> "", scheme |-> "", netloc |-> <<>>]

Linhas == {LinhaA, LinhaB, LinhaFora, LinhaSemEsquema, LinhaEmBranco}

\* utils.is_valid_url: scheme and netloc are not empty and the netloc ends
\* with "vatican.va"
is_valid_url(l) ==
  /\ l.scheme # ""
  /\ l.netloc # <<>>
  /\ l.netloc[Len(l.netloc)] = "vatican.va"

RECURSIVE Textos(_)
\* the texts of a sequence of lines
Textos(ls) == IF ls = <<>> THEN <<>> ELSE <<ls[1].texto>> \o Textos(Tail(ls))

\* _carregar_urls_iniciais: [] when the file is missing, else the lines that
\* are not blank and are valid urls
carregar_urls_iniciais(arq) ==
  IF ~arq.existe THEN <<>>
  ELSE Textos(SelectSeq(SelectSeq(arq.linhas, LAMBDA l : l.texto # ""), is_valid_url))

\* main, lines 47-53: the command is run with --crawl; with no valid url it
\* logs an error and main returns, which ends the process with status 0
main_carregar ==
  /\ bpc \in {"main", "saiu"}
  /\ execucoes < MaxExecucoes
  /\ lista_urls' = carregar_urls_iniciais(urls_txt)
  /\ IF carregar_urls_iniciais(urls_txt) # <<>>
     THEN bpc' = "inicio" /\ saida' = SemSaida
     ELSE bpc' = "saiu" /\ saida' = 0
  /\ UNCHANGED <<nomes, urls_a_processar, execucoes, processados_nesta_sessao, urls_txt, varsBusca>>
  /\ UNCHANGED <<varsCkpt, locais, diretorios, gerados, downloads, recebido, escritas, varsFila>>

\* main, line 51: crawler.iniciar_coleta_em_lote(urls_iniciais)
main_chama ==
  /\ bpc = "inicio"
  /\ iniciar_coleta_em_lote

\* main returns after the batch (status 0), or the exception of the batch
\* leaves main and the interpreter ends with status 1
main_fim ==
  /\ bpc \in {"fim", "vazio", "erro"}
  /\ saida' = IF bpc = "erro" THEN 1 ELSE 0
  /\ bpc' = "saiu"
  /\ UNCHANGED <<nomes, lista_urls, urls_a_processar, execucoes, processados_nesta_sessao, urls_txt, varsBusca>>
  /\ UNCHANGED <<varsCkpt, locais, diretorios, gerados, downloads, recebido, escritas, varsFila>>

\* urls.txt: missing, empty, or up to two lines
ArquivosDeUrls ==
  {UrlsAusente} \cup
  {[existe |-> TRUE, linhas |-> ls] :
     ls \in {<<>>} \cup {<<l>> : l \in Linhas} \cup {<<l, m>> : l \in Linhas, m \in Linhas}}

InitMain ==
  /\ nomes \in SUBSET {"datetime", "nlp"}
  /\ urls_txt \in ArquivosDeUrls
  /\ saida = SemSaida
  /\ chamada_busca = SemBusca
  /\ resultado_busca = <<>>
  /\ lista_urls = <<>>
  /\ urls_a_processar = <<>>
  /\ bpc = "main"
  /\ execucoes = 0
  /\ processados_nesta_sessao = 0
  /\ conteudo_bruto = [t \in Threads |-> 0]
  /\ texto_extraido = [t \in Threads |-> 0]
  /\ metadados = [t \in Threads |-> SemMetadados]
  /\ resultado = [t \in Threads |-> None]
  /\ falhas = [t \in Threads |-> {}]
  /\ metadata_dir = <<>>
  /\ txt_dir = <<>>
  /\ raw_dir = <<>>
  /\ embeddings_dir = <<>>
  /\ gerados = {}
  /\ escritas = {}
  /\ downloads = [u \in URLS |-> 0]
  /\ recebido = [t \in Threads |-> 0]
  /\ InitCkptParado
  /\ InitFilaParada

NextMain ==
  \/ main_carregar
  \/ main_chama
  \/ \E t \in Threads : PassoProc(t)
  \/ \E t \in Threads : lote_coletar(t)
  \/ lote_fim
  \/ main_fim

\* the crawl command run over whatever urls.txt holds
SpecMain == InitMain /\ [][NextMain]_vars

\* =========================================================================
\* core/nlp.py: SemanticSearch.buscar (109-140)
\* =========================================================================

\* A file of EMBEDDINGS_DIR is named <<stem, extension>> and holds
\* [legivel, sim]: whether np.load and pytorch_cos_sim succeed on it, and the
\* cosine similarity of its vector to the query vector.

\* line 118: [f for f in os.listdir(EMBEDDINGS_DIR) if f.endswith('.npy')]
embedding_files(listagem) == SelectSeq(listagem, LAMBDA f : f[2] = "npy")

RECURSIVE similaridades_sem_pular(_, _)
\* the loop of lines 124-131 scoring a file it cannot load as 0
similaridades_sem_pular(dir, arquivos) ==
  IF arquivos = <<>> THEN <<>>
  ELSE <<[doc_id |-> arquivos[1][1], score |-> dir[arquivos[1]].sim]>>
         \o similaridades_sem_pular(dir, Tail(arquivos))

RECURSIVE similaridades(_, _)
\* lines 124-131: the dict doc_id -> sim in insertion order; a file whose
\* load or scoring raises is logged and left out
similaridades(dir, arquivos) ==
  IF arquivos = <<>> THEN <<>>
  ELSE (IF dir[arquivos[1]].legivel
        THEN <<[doc_id |-> arquivos[1][1], score |-> dir[arquivos[1]].sim]>>
        ELSE <<>>) \o similaridades(dir, Tail(arquivos))

RECURSIVE inserir(_, _)
\* x placed after the items whose score is not lower than its own
inserir(x, s) ==
  IF s = <<>> THEN <<x>>
  ELSE IF s[1].score >= x.score THEN <<s[1]>> \o inserir(x, Tail(s))
  ELSE <<x>> \o s

RECURSIVE sorted_crescente(_)
\* sorted(items, key=score) without reverse=True
sorted_crescente(itens) ==
  IF itens = <<>> THEN <<>>
  ELSE LET resto == sorted_crescente(SubSeq(itens, 1, Len(itens) - 1))
           x == itens[Len(itens)]
           menores == SelectSeq(resto, LAMBDA y : y.score <= x.score)
           maiores == SelectSeq(resto, LAMBDA y : y.score > x.score)
       IN menores \o <<x>> \o maiores

RECURSIVE sorted_reverse(_)
\* line 134: sorted(items, key=score, reverse=True), a stable sort: items of
\* equal score keep their order
sorted_reverse(itens) ==
  IF itens = <<>> THEN <<>>
  ELSE inserir(itens[Len(itens)], sorted_reverse(SubSeq(itens, 1, Len(itens) - 1)))

\* the slice s[:k] for k >= 0
fatia(s, k) == SubSeq(s, 1, IF k < Len(s) THEN k ELSE Len(s))

\* the list buscar returns: [] when encoding the query or listing the
\* directory raises (137-140) or when there is no .npy file (120-122), else
\* the top_k best (doc_id, score) pairs (134-136)
buscar_retorno(dir, listagem, k, erro) ==
  IF erro THEN <<>>
  ELSE IF embedding_files(listagem) = <<>> THEN <<>>
  ELSE fatia(sorted_reverse(similaridades(dir, embedding_files(listagem))), k)

\* SemanticSearch.buscar(query, top_k) over the directory as os.listdir
\* gives it; erro says that model.encode(query) or os.listdir raised
buscar(k, listagem, erro) ==
  /\ chamada_busca' = [feita |-> TRUE, top_k |-> k, listagem |-> listagem, erro |-> erro]
  /\ resultado_busca' = buscar_retorno(embeddings_dir, listagem, k, erro)
  /\ UNCHANGED <<nomes, lista_urls, urls_a_processar, bpc, execucoes, processados_nesta_sessao, principal>>
  /\ UNCHANGED <<varsCkpt, locais, diretorios, gerados, downloads, recebido, escritas, varsFila>>

\* the similarities tried: opposite, orthogonal, equal direction
Similaridades == {-1, 0, 1}

\* the file names tried: three vector files and a file that is not one
NomesDeArquivos == {<<"d1", "npy">>, <<"d2", "npy">>, <<"d3", "npy">>, <<"leia-me", "txt">>}

\* what EMBEDDINGS_DIR can hold: up to MaxArquivos files, each loadable or not
DiretoriosDeVetores ==
  UNION {[D -> {[legivel |-> FALSE, sim |-> 0]} \cup {[legivel |-> TRUE, sim |-> x] : x \in Similaridades}] :
           D \in {E \in SUBSET NomesDeArquivos : Cardinality(E) <= MaxArquivos}}

\* the orders os.listdir can give the names of a directory in
Listagens(dir) ==
  {l \in [1..Cardinality(DOMAIN dir) -> DOMAIN dir] : Range(l) = DOMAIN dir}

InitBusca ==
  /\ embeddings_dir \in DiretoriosDeVetores
  /\ chamada_busca = SemBusca
  /\ resultado_busca = <<>>
  /\ nomes = {}
  /\ lista_urls = <<>>
  /\ urls_a_processar = <<>>
  /\ bpc = "inicio"
  /\ execucoes = 0
  /\ processados_nesta_sessao = 0
  /\ conteudo_bruto = [t \in Threads |-> 0]
  /\ texto_extraido = [t \in Threads |-> 0]
  /\ metadados = [t \in Threads |-> SemMetadados]
  /\ resultado = [t \in Threads |-> None]
  /\ falhas = [t \in Threads |-> {}]
  /\ metadata_dir = <<>>
  /\ txt_dir = <<>>
  /\ raw_dir = <<>>
  /\ gerados = {}
  /\ escritas = {}
  /\ downloads = [u \in URLS |-> 0]
  /\ recebido = [t \in Threads |-> 0]
  /\ urls_txt = UrlsAusente
  /\ saida = SemSaida
  /\ InitCkptParado
  /\ InitFilaParada

NextBusca ==
  \/ \E k \in 0..MaxTopK, l \in Listagens(embeddings_dir) : buscar(k, l, FALSE)
  \/ \E k \in 0..MaxTopK : buscar(k, <<>>, TRUE)

\* searches over whatever EMBEDDINGS_DIR holds
SpecBusca == InitBusca /\ [][NextBusca]_vars

\* a producer fills the queue before the batch is started
produtor_adiciona(u, p) ==
  /\ bpc = "inicio"
  /\ adicionar_documento(u, p)

NextLoteFila ==
  \/ \E u \in URLS, p \in Prioridades : produtor_adiciona(u, p)
  \/ Next

\* batch runs next to a DocumentQueue that producers have filled
SpecLoteFila == Init /\ [][NextLoteFila]_vars

\* =========================================================================
\* Properties
\* =========================================================================

\* the future has left processar_documento
Terminou(t) == pc[t] \in {"feito", "excecao", "coletado"}

C6_FimAFim ==
  (nomes = {} /\ execucoes = 1 /\ Len(lista_urls) = 1 /\ injetadas = 0
      /\ bpc \in {"fim", "erro", "vazio"})
    => /\ bpc = "fim"
       /\ Cardinality(gerados) = 1
       /\ DOMAIN metadata_dir = {<<gerar_nome_arquivo_hash(lista_urls[1]), "json">>}
       /\ DOMAIN txt_dir = {<<gerar_nome_arquivo_hash(lista_urls[1]), "txt">>}
       /\ DOMAIN raw_dir = {<<gerar_nome_arquivo_hash(lista_urls[1]), Formato(lista_urls[1])>>}
       /\ Cardinality(DOMAIN embeddings_dir) = 1
       /\ lista_urls[1] \in processed_urls
       /\ lista_urls[1] \in carregar_checkpoint(arquivo)
       /\ processados_nesta_sessao = 1

\* C7: a pipeline entered for a locator that is in the checkpoint set ends at
\* once with None and changes no store, no checkpoint and no fetch count; its
\* future adds nothing to the tally; and a batch run submits no future for a
\* locator its checkpoint set holds.
C7_Idempotencia ==
  [][/\ \A t \in Threads :
          (pc[t] = "pendente" /\ pc'[t] # "pendente" /\ url[t] \in processed_urls)
            => /\ pc'[t] = "feito"
               /\ resultado'[t] = None
               /\ UNCHANGED <<diretorios, downloads, gerados, processed_urls, arquivo>>
     /\ \A t \in Threads :
          (pc[t] = "feito" /\ pc'[t] = "coletado" /\ resultado[t] = None)
            => processados_nesta_sessao' = processados_nesta_sessao
     /\ execucoes' # execucoes
          => /\ \A i \in 1..Len(urls_a_processar') : urls_a_processar'[i] \notin processed_urls'
             /\ UNCHANGED <<diretorios, downloads, gerados, arquivo>>
             /\ processados_nesta_sessao' = 0]_vars

\* a duplicate of an already marked locator was skipped: one fetch, one record
C7_Witness ==
  \E t \in Tarefas :
    /\ pc[t] = "coletado"
    /\ resultado[t] = None
    /\ falhas[t] = {}
    /\ url[t] \in processed_urls
    /\ downloads[url[t]] = 1
    /\ Cardinality(gerados) = 1
    /\ processados_nesta_sessao = 1

\* C8: when a batch run ends, no locator that is not checkpointed is left in
\* the queue.
C8_FilaDrenada ==
  bpc \in {"fim", "vazio"} => \A u \in DOMAIN fila : u \in processed_urls

\* nobody is inside adicionar_url_processada
TodosVoltaram == \A t \in Threads : pc[t] \in {"ocioso", "marcado"}

\* C3: once every concurrent adicionar_url_processada call has returned, and
\* no write raised, the checkpoint file holds every locator of the in-memory
\* set (no older snapshot has overwritten a newer one).
C3_SemAtualizacaoPerdida ==
  (TodosVoltaram /\ ~io_falhou) => processed_urls \subseteq carregar_checkpoint(arquivo)

\* C4: every locator whose adicionar_url_processada call had returned before
\* the last restart is in the set the restarted process loaded (stated for
\* runs in which no write raised).
C4_Durabilidade ==
  (reinicios > 0 /\ ~io_falhou) => esperados \subseteq processed_urls

\* C5: at every point inside salvar_checkpoint, the file still yields at
\* least the locators it yielded when the call began.
C5_EscritaAtomica ==
  \A t \in Threads :
    pc[t] \in {"abrir", "dump"} => antes[t] \subseteq carregar_checkpoint(arquivo)

\* the locators handed back by obter_proximo_documento so far
Devolvidos == {u \in URLS : retornos[u] > 0}

\* the locators inside replies that have not reached their caller yet
EmVoo == {resposta[c][1].membro : c \in {d \in Consumidores : resposta[d] # <<>>}}

NaoCrescente(s) == \A i, j \in 1..Len(s) : i < j => s[i] >= s[j]

\* C10: every obter_proximo_documento removes an entry whose priority is the
\* maximum of the queue at that moment, and while no enqueue interleaves the
\* removed priorities form a non-increasing sequence.
C10_Prioridade ==
  [][\A c \in Consumidores :
       (cpc[c] = "ocioso" /\ cpc'[c] = "respondido" /\ DOMAIN fila # {}) =>
          /\ resposta'[c] # <<>>
          /\ resposta'[c][1].membro \in DOMAIN fila
          /\ resposta'[c][1].membro \notin DOMAIN fila'
          /\ resposta'[c][1].score = fila[resposta'[c][1].membro]
          /\ \A m \in DOMAIN fila : fila[m] <= resposta'[c][1].score
          /\ (~houve_add => NaoCrescente(retirados'))]_vars

\* priorities 3, 1, 5 were loaded and came out as 5, 3, 1
C10_Witness ==
  /\ ~houve_add
  /\ {carga[m] : m \in DOMAIN carga} = {1, 3, 5}
  /\ retirados = <<5, 3, 1>>

\* C11: adicionar_documento inserts the locator only if it is absent and
\* returns true exactly when the locator was not in the queue before the
\* call; the size grows by one in that case and by zero otherwise.
C11_Enfileirar ==
  [][adds' # adds =>
       LET u == ultimo_add'.url
       IN /\ ultimo_add'.retorno = (u \notin DOMAIN fila)
          /\ u \notin DOMAIN fila
               => /\ DOMAIN fila' = DOMAIN fila \cup {u}
                  /\ Cardinality(DOMAIN fila') = Cardinality(DOMAIN fila) + 1
          /\ u \in DOMAIN fila => DOMAIN fila' = DOMAIN fila]_vars

\* C11 as amended: when the ZADD command raises no RedisError the call
\* returns true exactly when the locator was absent, the size grows by one
\* then and by zero otherwise, and no other locator enters or leaves; when
\* the command raises RedisError the call returns false.
C11_EnfileirarSemErro ==
  [][adds' # adds =>
       LET u == ultimo_add'.url
       IN /\ ultimo_add'.erro => ~ultimo_add'.retorno
          /\ ~ultimo_add'.erro =>
               /\ ultimo_add'.retorno = (u \notin DOMAIN fila)
               /\ DOMAIN fila' = DOMAIN fila \cup {u}
               /\ Cardinality(DOMAIN fila') =
                    Cardinality(DOMAIN fila) + (IF u \in DOMAIN fila THEN 0 ELSE 1)]_vars

\* a locator that was absent was enqueued and the call returned true
C11_Witness ==
  /\ adds = 1
  /\ ~ultimo_add.erro
  /\ ultimo_add.retorno
  /\ ultimo_add.url \notin DOMAIN carga
  /\ ultimo_add.url \in DOMAIN fila
  /\ Cardinality(DOMAIN fila) = Cardinality(DOMAIN carga) + 1

\* the fetch of future t gave content and the text extracted from it is empty
\* or shorter than the minimum
Rejeitada(t) == conteudo_bruto[t] > 0 /\ texto_extraido[t] < MIN_TEXTO

\* no file of the metadata, text or raw store is named by the hash of u, and
\* no vector is named by an id generated for u
SemArtefatos(u) ==
  /\ <<gerar_nome_arquivo_hash(u), "json">> \notin DOMAIN metadata_dir
  /\ <<gerar_nome_arquivo_hash(u), "txt">> \notin DOMAIN txt_dir
  /\ <<gerar_nome_arquivo_hash(u), Formato(u)>> \notin DOMAIN raw_dir
  /\ \A g \in gerados : g.url = u => <<g.id, "npy">> \notin DOMAIN embeddings_dir

\* C12: a pipeline whose extracted text is empty or shorter than 100 ends
\* with None and assembles no record; the step that rejects it changes no
\* store and no checkpoint; its future adds nothing to the tally; and in a
\* first run a locator all of whose pipelines were rejected has no artifact
\* and is in neither the checkpoint set nor the checkpoint file.
C12_PortaoDeTexto ==
  /\ [](\A t \in Tarefas :
          Rejeitada(t) => /\ pc[t] \in {"feito", "coletado"}
                          /\ resultado[t] = None
                          /\ metadados[t] = SemMetadados)
  /\ [](\A t \in Tarefas :
          (execucoes = 1 /\ Rejeitada(t)
             /\ \A s \in Tarefas : url[s] = url[t] => (Rejeitada(s) \/ pc[s] \in {"pendente", "baixar"}))
            => /\ SemArtefatos(url[t])
               /\ url[t] \notin processed_urls
               /\ url[t] \notin carregar_checkpoint(arquivo))
  /\ [][/\ \A t \in Threads :
             (~Rejeitada(t) /\ Rejeitada(t)')
               => UNCHANGED <<diretorios, gerados, processed_urls, arquivo>>
        /\ \A t \in Threads :
             (Rejeitada(t) /\ pc[t] = "feito" /\ pc'[t] = "coletado")
               => processados_nesta_sessao' = processados_nesta_sessao]_vars

\* a batch ended in which a text of 99 characters was rejected and the other
\* locator was processed
C12_Witness ==
  /\ bpc = "fim"
  /\ processados_nesta_sessao = 1
  /\ \E t \in Tarefas :
       /\ Rejeitada(t)
       /\ texto_extraido[t] = MIN_TEXTO - 1
       /\ pc[t] = "coletado"
       /\ SemArtefatos(url[t])
       /\ url[t] \notin processed_urls

\* the response received by future t is larger than the configured maximum
Grande(t) == recebido[t] > MAX_DOC_SIZE_MB * 1024 * 1024

\* C13: a pipeline whose response is larger than MAX_DOC_SIZE_MB gets no
\* content from the fetch, ends with None and assembles no record; the step
\* that receives the response changes no store and no checkpoint; and in a
\* first run a locator all of whose pipelines got an oversize response has no
\* artifact and is in neither the checkpoint set nor the checkpoint file.
C13_PortaoDeTamanho ==
  /\ [](\A t \in Tarefas :
          Grande(t) => /\ conteudo_bruto[t] = 0
                       /\ texto_extraido[t] = 0
                       /\ pc[t] \in {"feito", "coletado"}
                       /\ resultado[t] = None
                       /\ metadados[t] = SemMetadados)
  /\ [](\A t \in Tarefas :
          (execucoes = 1 /\ Grande(t)
             /\ \A s \in Tarefas : url[s] = url[t] => (Grande(s) \/ pc[s] \in {"pendente", "baixar"}))
            => /\ SemArtefatos(url[t])
               /\ url[t] \notin processed_urls
               /\ url[t] \notin carregar_checkpoint(arquivo))
  /\ [][/\ \A t \in Threads :
             (~Grande(t) /\ Grande(t)')
               => UNCHANGED <<diretorios, gerados, processed_urls, arquivo>>
        /\ \A t \in Threads :
             (Grande(t) /\ pc[t] = "feito" /\ pc'[t] = "coletado")
               => processados_nesta_sessao' = processados_nesta_sessao]_vars

\* a batch ended in which a response one byte over the maximum was refused
\* and the other locator was processed
C13_Witness ==
  /\ bpc = "fim"
  /\ processados_nesta_sessao = 1
  /\ \E t \in Tarefas :
       /\ recebido[t] = MAX_DOC_SIZE_MB * 1024 * 1024 + 1
       /\ pc[t] = "coletado"
       /\ SemArtefatos(url[t])
       /\ url[t] \notin processed_urls

\* the three files named by the hash of u exist
ComArtefatos(u) ==
  /\ <<gerar_nome_arquivo_hash(u), "json">> \in DOMAIN metadata_dir
  /\ <<gerar_nome_arquivo_hash(u), "txt">> \in DOMAIN txt_dir
  /\ <<gerar_nome_arquivo_hash(u), Formato(u)>> \in DOMAIN raw_dir

\* C14: a batch in which the pipeline of some locator has failed or raised
\* still reaches its end and its summary; at the end every future has been
\* collected, and every locator none of whose pipelines met a failure has
\* its artifacts, is in the checkpoint set and was returned as processed by
\* one of its futures.
C14_UmRuimNaoAborta ==
  /\ [](bpc = "fim" =>
          \A t \in Tarefas :
            /\ pc[t] = "coletado"
            /\ (\A s \in Tarefas : url[s] = url[t] => falhas[s] = {}) =>
                 /\ ComArtefatos(url[t])
                 /\ url[t] \in processed_urls
                 /\ \E s \in Tarefas : url[s] = url[t] /\ resultado[s] = url[s])
  /\ ((bpc = "rodando" /\ \E t \in Tarefas : falhas[t] # {}) ~> (bpc = "fim"))

\* a batch ended in which one pipeline raised while writing the text file and
\* the other locator was processed and counted
C14_Witness ==
  /\ bpc = "fim"
  /\ processados_nesta_sessao = 1
  /\ \E s, t \in Tarefas :
       /\ "txt" \in falhas[t]
       /\ url[s] # url[t]
       /\ falhas[s] = {}
       /\ resultado[s] = url[s]
       /\ ComArtefatos(url[s])

\* the locators of this run one of whose pipelines passed every step
PassaramTudo == {u \in Range(urls_a_processar) :
                   \E t \in Tarefas : url[t] = u /\ falhas[t] = {} /\ resultado[t] = u}

\* the locators this run added to the checkpoint set (none of the submitted
\* locators was in it when the run began)
NovosNoCheckpoint == processed_urls \cap Range(urls_a_processar)

Ilegivel(arq) == ~arq.existe \/ arq.conteudo # "objeto"

\* C16: a process started over a checkpoint file that is absent, not
\* decodable, not valid JSON or not of the expected shape constructs its
\* CheckpointManager, with an empty set.
C16_InicioAberto ==
  [][(reinicios' # reinicios /\ Ilegivel(arquivo))
       => /\ \A t \in Threads : pc'[t] = "ocioso"
          /\ processed_urls' = {}]_vars

\* C17: when the crawl command finds no valid seed locator (urls.txt missing,
\* empty, or holding only blank and invalid lines) no batch is started and
\* the process ends with a non-zero status.
C17_SemSementes ==
  (bpc = "saiu" /\ carregar_urls_iniciais(urls_txt) = <<>>)
    => /\ execucoes = 0
       /\ saida # SemSaida
       /\ saida # 0

\* the files of the metadata, text and raw stores
ArquivosPorHash == DOMAIN metadata_dir \cup DOMAIN txt_dir \cup DOMAIN raw_dir

\* the vector files named by an id that was generated for locator u
VetoresDe(u) == {f \in DOMAIN embeddings_dir : \E g \in gerados : g.url = u /\ f = <<g.id, "npy">>}

\* locator u went through every step in the current run, after an attempt of
\* an earlier run that had generated a record for it
Reprocessado(u) ==
  /\ \E t \in Tarefas : url[t] = u /\ resultado[t] = u /\ falhas[t] = {}
  /\ \E g \in gerados : g.url = u /\ g.execucao < execucoes

Legiveis == {f \in DOMAIN embeddings_dir : f[2] = "npy" /\ embeddings_dir[f].legivel}

\* the vector files of the directory
Armazenados == {f \in DOMAIN embeddings_dir : f[2] = "npy"}

\* the result has n items, each the id and score of a loadable vector file,
\* no id twice, scores non-increasing, and no loadable file that is left out
\* scores higher than a returned one
MelhoresDe(r, n) ==
  /\ Len(r) = n
  /\ \A i \in 1..Len(r) :
       /\ <<r[i].doc_id, "npy">> \in Legiveis
       /\ r[i].score = embeddings_dir[<<r[i].doc_id, "npy">>].sim
  /\ \A i, j \in 1..Len(r) : i < j => r[i].doc_id # r[j].doc_id /\ r[i].score >= r[j].score
  /\ \A f \in Legiveis :
       (\A i \in 1..Len(r) : r[i].doc_id # f[1])
         => \A i \in 1..Len(r) : r[i].score >= embeddings_dir[f].sim

\* the smaller of top_k and the number of loadable vector files
QuantosCabem(k) == IF k < Cardinality(Legiveis) THEN k ELSE Cardinality(Legiveis)

\* C19: buscar(query, top_k) returns min(top_k, number of readable entries)
\* results, each a distinct stored id, in non-increasing score order, none
\* scoring lower than a stored entry that is left out; and an empty sequence
\* when no entry is stored.
C19_Busca ==
  chamada_busca.feita =>
    /\ MelhoresDe(resultado_busca, QuantosCabem(chamada_busca.top_k))
    /\ Armazenados = {} => resultado_busca = <<>>

\* C19 as amended: for top_k >= 0, when encoding the query and listing the
\* directory raise nothing, buscar returns min(top_k, number of readable
\* entries) results, each a distinct stored id, in non-increasing score
\* order, none scoring lower than a stored entry that is left out, and an
\* empty sequence when no entry is stored; when one of them raises, buscar
\* returns an empty sequence.
C19_BuscaSemErro ==
  chamada_busca.feita =>
    /\ ~chamada_busca.erro =>
         /\ MelhoresDe(resultado_busca, QuantosCabem(chamada_busca.top_k))
         /\ Armazenados = {} => resultado_busca = <<>>
    /\ chamada_busca.erro => resultado_busca = <<>>

\* three vectors of similarities -1, 0 and 1 are stored, top_k is 2, and the
\* result is the two best, best first
C19_Witness ==
  /\ chamada_busca.feita
  /\ ~chamada_busca.erro
  /\ chamada_busca.top_k = 2
  /\ Cardinality(Legiveis) = 3
  /\ {embeddings_dir[f].sim : f \in Legiveis} = {-1, 0, 1}
  /\ Len(resultado_busca) = 2
  /\ resultado_busca[1].score = 1
  /\ resultado_busca[2].score = 0

\* the directory and the listing without the vector files that do not load
SoLegiveis(dir) == [f \in {g \in DOMAIN dir : g[2] # "npy" \/ dir[g].legivel} |-> dir[f]]

ListagemLegivel(dir, listagem) == SelectSeq(listagem, LAMBDA f : f[2] # "npy" \/ dir[f].legivel)

\* C20: no vector file that cannot be loaded or scored is in the result of
\* buscar, and the result is what the same search returns over the directory
\* without those files.
C20_IlegivelPulado ==
  chamada_busca.feita =>
    /\ \A i \in 1..Len(resultado_busca) :
         <<resultado_busca[i].doc_id, "npy">> \in Legiveis
    /\ resultado_busca =
         buscar_retorno(SoLegiveis(embeddings_dir),
                        ListagemLegivel(embeddings_dir, chamada_busca.listagem),
                        chamada_busca.top_k, chamada_busca.erro)

\* a search over two loadable vectors and one that does not load returned
\* the two
C20_Witness ==
  /\ chamada_busca.feita
  /\ ~chamada_busca.erro
  /\ chamada_busca.top_k = 3
  /\ Cardinality(Armazenados) = 3
  /\ Cardinality(Legiveis) = 2
  /\ Len(resultado_busca) = 2

\* the artifacts in the order lines 117-124 write them
OrdemDosArtefatos == <<"meta", "txt", "raw", "vetor">>

\* some pipeline run for u has issued all four artifact writes
EmitiuTodas(u) ==
  \E g \in gerados :
    /\ g.url = u
    /\ \A i \in 1..4 :
         [id |-> g.id, url |-> u, tipo |-> OrdemDosArtefatos[i], n |-> i] \in escritas

\* C21: in every pipeline run that reaches persistence the writes are issued
\* in the order metadata, text, raw bytes, vector (the i-th write a run
\* issues is the i-th of that order), and the mark comes after all four: at
\* every point of a batch run, each of them a point where the process may be
\* killed, a locator in the in-memory set or in the durable checkpoint file
\* has had all four artifact writes issued by one pipeline run
C21_OrdemDeEscrita ==
  /\ \A e \in escritas : e.n \in 1..4 /\ e.tipo = OrdemDosArtefatos[e.n]
  /\ \A u \in processed_urls \cup carregar_checkpoint(arquivo) : EmitiuTodas(u)

\* a locator is in the durable file, its four writes were issued and one of
\* them failed, while another pipeline is in the middle of its own writes
C21_Witness ==
  /\ bpc = "rodando"
  /\ \E t, s \in Tarefas :
       /\ url[t] \in carregar_checkpoint(arquivo)
       /\ EmitiuTodas(url[t])
       /\ ~ComArtefatos(url[t])
       /\ pc[s] = "raw"

\* future t has issued its fourth artifact write, so line 127 was reached
ChegouAMarca(t) ==
  /\ metadados[t] # SemMetadados
  /\ [id |-> metadados[t].id, url |-> url[t], tipo |-> "vetor", n |-> 4] \in escritas

\* the call of adicionar_url_processada by future t is over and the write of
\* the checkpoint file in it failed with an I/O error
FalhouNoCheckpoint(t) ==
  /\ ChegouAMarca(t)
  /\ pc[t] \notin {"add", "salvar", "abrir", "dump"}
  /\ ~salvo[t]

\* C22: when the write of the checkpoint file fails with an I/O error inside
\* adicionar_url_processada, no exception leaves the call, the in-memory set
\* holds the locator from then on in this process, and the pipeline returns
\* the locator, which is what the batch counts as processed
C22_FalhaDeEscritaEngolida ==
  \A t \in Tarefas :
    FalhouNoCheckpoint(t) =>
      /\ pc[t] # "excecao"
      /\ url_ja_processada(url[t])
      /\ pc[t] \in {"feito", "coletado"} => resultado[t] = url[t]

\* a pipeline whose checkpoint write failed has returned its locator and was
\* counted, the locator being absent from the durable file
C22_Witness ==
  \E t \in Tarefas :
    /\ FalhouNoCheckpoint(t)
    /\ pc[t] = "coletado"
    /\ resultado[t] = url[t]
    /\ processados_nesta_sessao >= 1
    /\ url[t] \notin carregar_checkpoint(arquivo)

\* C23: the batch summary is reported only after every submitted pipeline
\* has finished and was collected, at most MAX_WORKERS pipelines execute at
\* the same time, and a batch whose pool is running reaches its summary when
\* every call returns
C23_PoolLimitadoETermina ==
  /\ [](bpc = "fim" => \A t \in Tarefas : pc[t] = "coletado")
  /\ [](Cardinality(EmExecucao) <= MAX_WORKERS)
  /\ ((bpc = "rodando") ~> (bpc = "fim"))

\* MAX_WORKERS pipelines execute while a submitted future waits for a worker
C23_Witness ==
  /\ bpc = "rodando"
  /\ Cardinality(EmExecucao) = MAX_WORKERS
  /\ \E t \in Tarefas : pc[t] = "pendente"

\* C24: the in-memory set of a CheckpointManager only grows: in every step
\* that does not construct a new manager (a restart of the process), whatever
\* the interleaving of the threads inside adicionar_url_processada, every
\* locator of the set stays in it, so url_ja_processada stays true
C24_ConjuntoSoCresce ==
  [][reinicios' = reinicios => processed_urls \subseteq processed_urls']_vars

\* two threads are inside adicionar_url_processada at once, one having opened
\* the file and the other about to write, and the set holds both locators
C24_Witness ==
  /\ Cardinality(processed_urls) >= 2
  /\ \E t, s \in Threads :
       /\ url[t] # url[s]
       /\ pc[t] = "abrir"
       /\ pc[s] = "dump"
       /\ {url[t], url[s]} \subseteq processed_urls

\* the step is a call of adicionar_documento for a locator that is in the queue
Reenfileira == adds' # adds /\ ultimo_add'.url \in DOMAIN fila

\* the step is the ZPOPMAX of consumer c on a queue that is not empty
Retira(c) == cpc[c] = "ocioso" /\ cpc'[c] = "respondido" /\ DOMAIN fila # {}

\* a dequeue removes the locator it hands out, which has the highest of the
\* stored priorities
RetiraOMaior ==
  \A c \in Consumidores :
    Retira(c) =>
      /\ resposta'[c][1].membro \in DOMAIN fila
      /\ DOMAIN fila' = DOMAIN fila \ {resposta'[c][1].membro}
      /\ \A m \in DOMAIN fila : fila[m] <= fila[resposta'[c][1].membro]

====
